---------------------------- MODULE Spec2Model ----------------------------
(***************************************************************************)
(* Model of src/src/components/main_button.rs: the MainButton widget.      *)
(*                                                                         *)
(* Four systems run in the Update schedule of every frame (tick):          *)
(*   build_system, pointer_enter_system, pointer_leave_system and          *)
(*   update_system, the two pointer systems ordered before update_system   *)
(*   and nothing else ordered (MainButtonPlugin::build).                   *)
(*                                                                         *)
(* Numbers.  The f32 values of the source are modelled as exact fixed      *)
(* point numbers with One units to 1.0: animation_transition, colour       *)
(* alpha and the relative layout offset are integers counting 1/One, and   *)
(* the frame's elapsed time counts 1/One seconds.  animation_direction     *)
(* is one of the integers -1, 0, 1.  Sums and products are exact: the      *)
(* rounding of f32 arithmetic is not modelled.                             *)
(***************************************************************************)
EXTENDS Integers, Sequences, FiniteSets, Bags, TLC

\* ------------------------------------------------------------------ bounds
\* Most pointer events (Over and Out together) delivered in one frame.
MaxEvents == 2
\* Largest elapsed time of one frame, in units of 1/One second.
MaxDt == 3
\* Most compositions the model lets one entity collect (build_system caps here).
MaxGen == 2

\* --------------------------------------------------------------- constants
\* 1.0 as a fixed point number: the upper clamp bound of line 152.
One == 20
\* The rate literal 10.0 of line 151.
RATE == 10
\* The layout factor 10.0 of line 171.
LAYOUT_SHIFT == 10
\* The number of Cursor2d entities the host application spawns.
HostCursors == 1

\* The scene: the entities that may carry a MainButton.
Buttons == {1, 2}

\* Entities.  A node of a button's private tree is named by its owner, the
\* number of compositions the owner had when it was spawned, and its slot.
OtherNode == <<0, 0, "Other">>
ImageId(b, g) == <<b, g, "Image">>
TextId(b, g) == <<b, g, "Text">>
ControlId(b, g) == <<b, g, "Control">>

VARIABLES
    hasButton,    \* hasButton[b]: entity b carries a MainButton component
    added,        \* added[b]: Added<MainButton> matches b for build_system
    commands,     \* build_system's deferred spawns, applied when the schedule ends
    nodes,        \* spawned UI nodes: id -> [path, pickable, sprite, alpha]
    control,      \* MainButtonControl components: Control node id -> record
    events,       \* this frame's Pointer<Over> and Pointer<Out> events, in the order sent
    lastPointer,  \* history: the pointer system that ran latest in this frame
    pc,           \* "idle" between frames, "update" while the Update schedule runs
    ran,          \* the systems that have run in this frame
    dt,           \* time.delta_seconds() of the frame, as update_system read it (0 between frames)
    previous,     \* update_system's local `previous` of each control it has visited in this frame
    set_color,    \* bag of SetColor events sent in this frame
    set_layout,   \* bag of SetUiLayout events sent in this frame
    cursorReq,    \* Control nodes that called request_cursor in this frame
    cursors,      \* number of entities carrying Cursor2d
    panicked,     \* a system panicked: the application is gone
    assets,       \* the AssetCache resource build_system reads
    lastSent      \* history: Image node -> the alpha and offset last sent to it (or built into it)

vars == <<hasButton, added, commands, nodes, control, events, lastPointer,
          pc, ran, dt, previous, set_color, set_layout, cursorReq, cursors, panicked,
          assets, lastSent>>

\* ------------------------------------------------------------------ helpers
SeqsUpTo(S, n) == UNION {[1..k -> S] : k \in 0..n}

Range(s) == {s[i] : i \in 1..Len(s)}

\* All orders in which a query may iterate the entities of S.
Orders(S) == {s \in [1..Cardinality(S) -> S] : \A i, j \in 1..Cardinality(S) : s[i] = s[j] => i = j}

\* (mutant) a clamp that wraps around at the upper bound
ClampWrap(x, lo, hi) == IF x < lo THEN lo ELSE IF x > hi THEN lo + ((x - hi) % (hi - lo)) ELSE x

\* (mutant) a clamp that forgets the upper bound
ClampLowOnly(x, lo, hi) == IF x < lo THEN lo ELSE x

\* f32::clamp with min <= max.
Clamp(x, lo, hi) == IF x < lo THEN lo ELSE IF x > hi THEN hi ELSE x

\* Color::BEVYPUNK_RED.lerp(Color::BEVYPUNK_YELLOW.with_l(0.68), t): the colour is
\* named by its interpolation fraction; both end colours are opaque.
LerpColor(t) == [mix |-> t, a |-> One]

\* Color::with_a
with_a(color, a) == [color EXCEPT !.a = a]

\* UiLayout::window_full().x(Rl(10.0 * t)): the relative horizontal offset.
LayoutX(t) == LAYOUT_SHIFT * t

\* Compositions entity b owns: its Control nodes.
ControlsOf(b) == {c \in DOMAIN control : c[1] = b}

\* ------------------------------------------------------------------ initial
Init ==
    /\ hasButton = [b \in Buttons |-> FALSE]
    /\ added = [b \in Buttons |-> FALSE]
    /\ commands = {}
    /\ nodes = << >>
    /\ control = << >>
    /\ events = << >>
    /\ lastPointer = "none"
    /\ pc = "idle"
    /\ ran = {}
    /\ dt = 0
    /\ previous = << >>
    /\ set_color = EmptyBag
    /\ set_layout = EmptyBag
    /\ cursorReq = {}
    /\ cursors = HostCursors
    /\ panicked = FALSE
    /\ assets = "loaded"
    /\ lastSent = << >>

\* ------------------------------------------------------------------ actions
\* The host inserts a MainButton on entity b between two frames.  An insert on
\* an entity that already carries one replaces the value and is not an addition.
InsertMainButton(b) ==
    /\ pc = "idle"
    /\ ~panicked
    /\ hasButton' = [hasButton EXCEPT ![b] = TRUE]
    /\ added' = [added EXCEPT ![b] = (added[b] \/ ~hasButton[b])]
    /\ UNCHANGED <<commands, nodes, control, events, lastPointer, pc, ran, dt,
                   previous, set_color, set_layout, cursorReq, cursors, panicked,
                   assets, lastSent>>

\* The nodes the picking backend can report under the pointer: a node with a
\* sprite, unless it is marked Pickable::IGNORE (lines 60, 102).
Hittable == {n \in DOMAIN nodes : nodes[n].sprite /\ nodes[n].pickable # "IGNORE"}

\* The targets a pointer event may name: a node that can be hit, or OtherNode,
\* which stands for any entity outside the buttons' trees.
Targets == Hittable \cup {OtherNode}

PointerEvents == [kind : {"Over", "Out"}, target : Targets]

\* The targets of the events of one kind, in the order they were sent.
QueueOf(evs, k) ==
    LET sel == SelectSeq(evs, LAMBDA e : e.kind = k)
    IN  [i \in 1..Len(sel) |-> sel[i].target]

\* Events<Pointer<Over>> and Events<Pointer<Out>>: one queue for each event type.
OverQ == QueueOf(events, "Over")
OutQ == QueueOf(events, "Out")

\* A frame starts: the picking backend has sent this frame's pointer events
\* (PreUpdate).
BeginUpdate ==
    /\ pc = "idle"
    /\ ~panicked
    /\ events' \in SeqsUpTo(PointerEvents, MaxEvents)
    /\ pc' = "update"
    /\ UNCHANGED <<hasButton, added, commands, nodes, control, lastPointer, ran, dt,
                   previous, set_color, set_layout, cursorReq, cursors, panicked,
                   assets, lastSent>>

\* (mutant) the loop gives up at the first target that is not a button
RECURSIVE SetDirectionsUntilMiss(_, _, _)
SetDirectionsUntilMiss(q, ctl, d) ==
    IF q = << >> \/ Head(q) \notin DOMAIN ctl THEN ctl
    ELSE SetDirectionsUntilMiss(Tail(q), [ctl EXCEPT ![Head(q)].animation_direction = d], d)

\* for event in events.read() { if let Ok(mut control) = query.get_mut(event.target)
\*     { control.animation_direction = d } }
RECURSIVE SetDirections(_, _, _)
SetDirections(q, ctl, d) ==
    IF q = << >> THEN ctl
    ELSE SetDirections(Tail(q),
                       IF Head(q) \in DOMAIN ctl
                       THEN [ctl EXCEPT ![Head(q)].animation_direction = d]
                       ELSE ctl,
                       d)

\* (mutant) every Over event adds to the direction
RECURSIVE EnterLoopAdds(_, _)
EnterLoopAdds(q, ctl) ==
    IF q = << >> THEN ctl
    ELSE EnterLoopAdds(Tail(q),
                       IF Head(q) \in DOMAIN ctl
                       THEN [ctl EXCEPT ![Head(q)].animation_direction = @ + 1]
                       ELSE ctl)

\* (mutant) an Out event does not override a hovered control
RECURSIVE LeaveLoopKeepsHover(_, _)
LeaveLoopKeepsHover(q, ctl) ==
    IF q = << >> THEN ctl
    ELSE LeaveLoopKeepsHover(Tail(q),
                             IF Head(q) \in DOMAIN ctl /\ ctl[Head(q)].animation_direction # 1
                             THEN [ctl EXCEPT ![Head(q)].animation_direction = -1]
                             ELSE ctl)

\* (mutant) an Over event restarts the animation
RECURSIVE EnterLoopRestarts(_, _)
EnterLoopRestarts(q, ctl) ==
    IF q = << >> THEN ctl
    ELSE EnterLoopRestarts(Tail(q),
                           IF Head(q) \in DOMAIN ctl
                           THEN [ctl EXCEPT ![Head(q)].animation_direction = 1,
                                            ![Head(q)].animation_transition = 0]
                           ELSE ctl)

\* (mutant) an Out event sends every control backward
LeaveLoopAll(q, ctl) ==
    IF q = << >> THEN ctl
    ELSE [c \in DOMAIN ctl |-> [ctl[c] EXCEPT !.animation_direction = -1]]

\* (mutant) an Out event puts the control back to idle
LeaveLoopIdles(q, ctl) == SetDirections(q, ctl, 0)

\* The loop of pointer_enter_system over the Over events it reads.
EnterLoop(q, ctl) == SetDirections(q, ctl, 1)

\* The loop of pointer_leave_system over the Out events it reads.
LeaveLoop(q, ctl) == SetDirections(q, ctl, -1)

\* run_if(on_event::<Pointer<Over>>()): the system runs in a frame that has events.
pointer_enter_system ==
    /\ pc = "update"
    /\ ~panicked
    /\ "enter" \notin ran
    /\ OverQ # << >>
    /\ control' = EnterLoop(OverQ, control)
    /\ ran' = ran \cup {"enter"}
    /\ lastPointer' = "enter"
    /\ UNCHANGED <<hasButton, added, commands, nodes, events, pc, dt,
                   previous, set_color, set_layout, cursorReq, cursors, panicked,
                   assets, lastSent>>

pointer_leave_system ==
    /\ pc = "update"
    /\ ~panicked
    /\ "leave" \notin ran
    /\ OutQ # << >>
    /\ control' = LeaveLoop(OutQ, control)
    /\ ran' = ran \cup {"leave"}
    /\ lastPointer' = "leave"
    /\ UNCHANGED <<hasButton, added, commands, nodes, events, pc, dt,
                   previous, set_color, set_layout, cursorReq, cursors, panicked,
                   assets, lastSent>>

\* (mutant) update_system is not ordered after the pointer systems
UpdateAnyTime == TRUE

\* .before(update_system) on both pointer systems: update_system starts once each
\* of them has run or has been skipped by its run condition.
UpdateMayStart ==
    /\ "enter" \in ran \/ OverQ = << >>
    /\ "leave" \in ran \/ OutQ = << >>

\* (mutant) the step forgets the rate 10.0
AnimateUnscaled(ctl, d) ==
    Clamp(ctl.animation_transition + d * ctl.animation_direction, 0, One)

\* The new animation_transition of one control after d seconds.
Animate(ctl, d) ==
    Clamp(ctl.animation_transition + d * RATE * ctl.animation_direction, 0, One)

\* (mutant) the transparent colour is sent to the label as well
ColorEventsBothFaded(ctl, t) ==
    SetToBag({[target |-> ctl.image_entity, color |-> with_a(LerpColor(t), t)],
              [target |-> ctl.text_entity, color |-> with_a(LerpColor(t), t)]})

\* The SetColor events of one control whose transition moved to t.
ColorEvents(ctl, t) ==
    SetToBag({[target |-> ctl.image_entity, color |-> with_a(LerpColor(t), t)],
              [target |-> ctl.text_entity, color |-> LerpColor(t)]})

\* The SetUiLayout event of one control whose transition moved to t.
LayoutEvents(ctl, t) ==
    SetToBag({[target |-> ctl.image_entity, x |-> LayoutX(t)]})

\* (mutant) instructions are sent only while the transition grows
MovedUp(prev, t) == t > prev

\* (mutant) instructions are sent while the button is visibly active
MovedOrActive(prev, t) == prev # t \/ t > 0

\* (mutant) instructions are sent in every frame
MovedAlways(prev, t) == TRUE

\* if previous != control.animation_transition
Moved(prev, t) == prev # t

\* (mutant) the cursor is requested while the button is visibly active
WantsCursorWhileActive(ctl) == ctl.animation_transition > 0

\* if control.animation_direction == 1.0
WantsCursor(ctl) == ctl.animation_direction = 1

\* The body of update_system's loop for control c, on the running state st.
StepControl(c, st, d) ==
    LET ctl == st.control[c]
        prev == ctl.animation_transition
        t == Animate(ctl, d)
        moved == Moved(prev, t)
        sent == [st EXCEPT
                   !.control[c].animation_transition = t,
                   !.previous = (c :> prev) @@ @,
                   !.set_color = IF moved THEN @ (+) ColorEvents(ctl, t) ELSE @,
                   !.set_layout = IF moved THEN @ (+) LayoutEvents(ctl, t) ELSE @,
                   !.lastSent = IF moved
                                THEN (ctl.image_entity :>
                                        [alpha |-> with_a(LerpColor(t), t).a, x |-> LayoutX(t)]) @@ @
                                ELSE @]
    IN  IF WantsCursor(ctl)
        THEN IF st.cursors = 1
             THEN [sent EXCEPT !.cursorReq = @ \cup {c}]
             ELSE [sent EXCEPT !.panicked = TRUE]   \* single_mut() panics
        ELSE sent

\* for mut control in &mut query { ... }, in the query's iteration order.
RECURSIVE UpdateLoop(_, _, _, _)
UpdateLoop(order, i, st, d) ==
    IF i > Len(order) \/ st.panicked THEN st
    ELSE UpdateLoop(order, i + 1, StepControl(order[i], st, d), d)

\* update_system in a frame whose time.delta_seconds() is d.
UpdateWith(d) ==
    /\ pc = "update"
    /\ ~panicked
    /\ "update" \notin ran
    /\ UpdateMayStart
    /\ \E order \in Orders(DOMAIN control) :
          LET st == UpdateLoop(order, 1,
                               [control |-> control, previous |-> previous,
                                set_color |-> set_color,
                                set_layout |-> set_layout, cursorReq |-> cursorReq,
                                cursors |-> cursors, panicked |-> FALSE,
                                lastSent |-> lastSent], d)
          IN  /\ dt' = d
              /\ control' = st.control
              /\ previous' = st.previous
              /\ set_color' = st.set_color
              /\ set_layout' = st.set_layout
              /\ cursorReq' = st.cursorReq
              /\ panicked' = st.panicked
              /\ lastSent' = st.lastSent
    /\ ran' = ran \cup {"update"}
    /\ UNCHANGED <<hasButton, added, commands, nodes, events, lastPointer, pc, cursors, assets>>

update_system == \E d \in 0..MaxDt : UpdateWith(d)

\* (mutant) the query without its Added filter
BuildQueryAll == {b \in Buttons : hasButton[b]}

\* Query<(Entity, &MainButton), Added<MainButton>>: the entities build_system visits.
BuildQuery == {b \in Buttons : hasButton[b] /\ added[b]}

\* The three spawns build_system queues for entity b (lines 41-112).
BuildCommand(b) ==
    LET g == Cardinality(ControlsOf(b))
    IN  [entity |-> b, image |-> ImageId(b, g), text |-> TextId(b, g),
         control |-> ControlId(b, g)]

\* The states of the AssetCache resource: inserted with handles whose assets
\* are loaded, inserted with handles whose assets failed to load, or never
\* inserted.
AssetStates == {"loaded", "failed", "absent"}

\* assets: Res<AssetCache>: fetching the parameter panics when the resource does
\* not exist.  The handles are cloned whatever they point to.
ResMissing == assets = "absent"

build_system ==
    /\ pc = "update"
    /\ ~panicked
    /\ "build" \notin ran
    /\ \A b \in BuildQuery : Cardinality(ControlsOf(b)) < MaxGen
    /\ IF ResMissing
       THEN /\ panicked' = TRUE
            /\ UNCHANGED <<commands, added>>
       ELSE /\ commands' = commands \cup {BuildCommand(b) : b \in BuildQuery}
            /\ added' = [b \in Buttons |-> FALSE]
            /\ UNCHANGED panicked
    /\ ran' = ran \cup {"build"}
    /\ UNCHANGED <<hasButton, nodes, control, events, lastPointer, pc, dt,
                   previous, set_color, set_layout, cursorReq, cursors,
                   assets, lastSent>>

\* (mutant) the Image node is spawned without Pickable::IGNORE
SpawnedNodesImageUnmarked(cmd) ==
    (cmd.image :> [path |-> "Control/Image", pickable |-> "absent",
                   sprite |-> TRUE, alpha |-> 0])
    @@ (cmd.text :> [path |-> "Control/Image/Text", pickable |-> "absent",
                     sprite |-> FALSE, alpha |-> One])
    @@ (cmd.control :> [path |-> "Control", pickable |-> "default",
                        sprite |-> TRUE, alpha |-> 0])

\* The nodes one queued command spawns.  pickable is the node's Pickable
\* component: "IGNORE" (Pickable::IGNORE), "default" (PickableBundle::default())
\* or "absent" (the node is given none); sprite tells whether it has a sprite a
\* pointer can hit; alpha is the alpha of its colour.
SpawnedNodes(cmd) ==
    (cmd.image :> [path |-> "Control/Image", pickable |-> "IGNORE",
                   sprite |-> TRUE, alpha |-> 0])
    @@ (cmd.text :> [path |-> "Control/Image/Text", pickable |-> "absent",
                     sprite |-> FALSE, alpha |-> One])
    @@ (cmd.control :> [path |-> "Control", pickable |-> "default",
                        sprite |-> TRUE, alpha |-> 0])

\* The MainButtonControl one queued command inserts (lines 105-110).
SpawnedControl(cmd) ==
    cmd.control :> [animation_direction |-> 0, animation_transition |-> 0,
                    image_entity |-> cmd.image, text_entity |-> cmd.text]

\* What the Image nodes of queued commands look like when spawned: the sprite's
\* alpha 0.0 (line 56) and the offset 0 of UiLayout::window_full() (line 51).
BuiltLook(cmds) == [n \in {cmd.image : cmd \in cmds} |-> [alpha |-> 0, x |-> 0]]

RECURSIVE ApplyCommands(_, _, _)
ApplyCommands(cmds, ns, ctl) ==
    IF cmds = {} THEN [nodes |-> ns, control |-> ctl]
    ELSE LET cmd == CHOOSE x \in cmds : TRUE
         IN  ApplyCommands(cmds \ {cmd}, SpawnedNodes(cmd) @@ ns, SpawnedControl(cmd) @@ ctl)

\* The Update schedule ends: every system has run or was skipped by its run
\* condition, and the deferred commands are applied.  The rest of the frame
\* consumes the instruction events and the cursor requests.
EndUpdateTo(d) ==
    /\ pc = "update"
    /\ ~panicked
    /\ {"update", "build"} \subseteq ran
    /\ "enter" \in ran \/ OverQ = << >>
    /\ "leave" \in ran \/ OutQ = << >>
    /\ LET w == ApplyCommands(commands, nodes, control)
       IN  /\ nodes' = w.nodes
           /\ control' = w.control
    /\ commands' = {}
    /\ events' = << >>
    /\ lastPointer' = "none"
    /\ ran' = {}
    /\ previous' = << >>
    /\ set_color' = EmptyBag
    /\ set_layout' = EmptyBag
    /\ cursorReq' = {}
    /\ pc' = "idle"
    /\ dt' = d
    /\ lastSent' = BuiltLook(commands) @@ lastSent
    /\ UNCHANGED <<hasButton, added, cursors, panicked, assets>>

EndUpdate == EndUpdateTo(0)

Next ==
    \/ \E b \in Buttons : InsertMainButton(b)
    \/ BeginUpdate
    \/ pointer_enter_system
    \/ pointer_leave_system
    \/ update_system
    \/ build_system
    \/ EndUpdate

Spec == Init /\ [][Next]_vars

\* ------------------------------------------------- a hovered scene, fixed step
\* Both buttons are built, the pointer rests on button 1 (direction 1.0, the
\* transition still 0.0), button 2 is half way in any direction, and every
\* frame takes the same positive time.
HeldCommands == {[entity |-> b, image |-> ImageId(b, 0), text |-> TextId(b, 0),
                  control |-> ControlId(b, 0)] : b \in Buttons}

InitHeld ==
    /\ hasButton = [b \in Buttons |-> TRUE]
    /\ added = [b \in Buttons |-> FALSE]
    /\ commands = {}
    /\ nodes = ApplyCommands(HeldCommands, << >>, << >>).nodes
    /\ \E d2 \in {-1, 0, 1} :
          control = [ApplyCommands(HeldCommands, << >>, << >>).control EXCEPT
                        ![ControlId(1, 0)].animation_direction = 1,
                        ![ControlId(2, 0)].animation_direction = d2,
                        ![ControlId(2, 0)].animation_transition = One \div 2]
    /\ events = << >>
    /\ lastPointer = "none"
    /\ pc = "idle"
    /\ ran = {}
    /\ dt \in 1..MaxDt
    /\ previous = << >>
    /\ set_color = EmptyBag
    /\ set_layout = EmptyBag
    /\ cursorReq = {}
    /\ cursors = HostCursors
    /\ panicked = FALSE
    /\ assets = "loaded"
    /\ lastSent = BuiltLook(HeldCommands)

\* A frame in which no pointer leaves anything.
HeldBegin == BeginUpdate /\ QueueOf(events', "Out") = << >>

\* update_system with the fixed time step.
HeldUpdate == UpdateWith(dt)

\* The frame ends and the next one takes the same time.
HeldEnd == EndUpdateTo(dt)

NextHeld ==
    \/ HeldBegin
    \/ pointer_enter_system
    \/ HeldUpdate
    \/ build_system
    \/ HeldEnd

\* The application keeps running frames.
SpecHeld == InitHeld /\ [][NextHeld]_vars /\ WF_vars(NextHeld)

\* ------------------------------------------- a button left alone, fixed step
\* Both buttons are built.  Button 1 is half way forward or backward, or has
\* never been touched; from now on no pointer event names its Control node,
\* while the other button still gets them, and every frame takes the same
\* positive time.
QuietControl == ControlId(1, 0)

InitQuiet ==
    /\ hasButton = [b \in Buttons |-> TRUE]
    /\ added = [b \in Buttons |-> FALSE]
    /\ commands = {}
    /\ nodes = ApplyCommands(HeldCommands, << >>, << >>).nodes
    /\ \E d1 \in {-1, 0, 1} :
          LET t1 == IF d1 = 0 THEN 0 ELSE One \div 2
          IN  /\ control = [ApplyCommands(HeldCommands, << >>, << >>).control EXCEPT
                               ![QuietControl].animation_direction = d1,
                               ![QuietControl].animation_transition = t1]
              /\ lastSent = [BuiltLook(HeldCommands) EXCEPT
                                ![ImageId(1, 0)] = [alpha |-> t1, x |-> LayoutX(t1)]]
    /\ events = << >>
    /\ lastPointer = "none"
    /\ pc = "idle"
    /\ ran = {}
    /\ dt \in 1..MaxDt
    /\ previous = << >>
    /\ set_color = EmptyBag
    /\ set_layout = EmptyBag
    /\ cursorReq = {}
    /\ cursors = HostCursors
    /\ panicked = FALSE
    /\ assets = "loaded"

\* A frame whose pointer events all name the Control node of the other button.
QuietBegin == BeginUpdate /\ \A i \in 1..Len(events') : events'[i].target = ControlId(2, 0)

NextQuiet ==
    \/ QuietBegin
    \/ pointer_enter_system
    \/ pointer_leave_system
    \/ HeldUpdate
    \/ build_system
    \/ HeldEnd

\* The application keeps running frames.
SpecQuiet == InitQuiet /\ [][NextQuiet]_vars /\ WF_vars(NextQuiet)

\* ------------------------------------------------- any host application
\* The host decides what the widget finds around it: whether the AssetCache
\* resource exists and what its handles point to, and how many entities carry
\* a Cursor2d.
CursorCounts == {0, 1, 2}

InitHost ==
    /\ hasButton = [b \in Buttons |-> FALSE]
    /\ added = [b \in Buttons |-> FALSE]
    /\ commands = {}
    /\ nodes = << >>
    /\ control = << >>
    /\ events = << >>
    /\ lastPointer = "none"
    /\ pc = "idle"
    /\ ran = {}
    /\ dt = 0
    /\ previous = << >>
    /\ set_color = EmptyBag
    /\ set_layout = EmptyBag
    /\ cursorReq = {}
    /\ cursors \in CursorCounts
    /\ panicked = FALSE
    /\ assets \in AssetStates
    /\ lastSent = << >>

SpecHost == InitHost /\ [][Next]_vars

\* ------------------------------------------------------------- properties
\* The step in which pointer_enter_system / pointer_leave_system runs.
EnterStep == "enter" \notin ran /\ "enter" \in ran'
LeaveStep == "leave" \notin ran /\ "leave" \in ran'

\* update_system has run in the current frame.
Stepped == pc = "update" /\ "update" \in ran

\* The instruction events of a bag that are addressed to node x.
SentTo(bag, x) == {e \in BagToSet(bag) : e.target = x}

\* No instruction of the two bags is addressed to a node of control record ctl.
Silent(colors, layouts, ctl) ==
    /\ SentTo(colors, ctl.image_entity) = {}
    /\ SentTo(colors, ctl.text_entity) = {}
    /\ SentTo(layouts, ctl.image_entity) = {}
    /\ SentTo(layouts, ctl.text_entity) = {}

\* C1: after every run of update_system, and in every other reachable state,
\* the animation_transition of every button lies between 0.0 and 1.0.
C1_Clamped ==
    \A c \in DOMAIN control :
        /\ control[c].animation_transition >= 0
        /\ control[c].animation_transition <= One

\* C1 witness: update_system ran with a positive elapsed time on a button that
\* is hovered and already at 1.0: the sum overshoots and the clamp absorbs it.
C1_Witness ==
    /\ Stepped
    /\ dt > 0
    /\ \E c \in DOMAIN control :
          /\ control[c].animation_direction = 1
          /\ c \in DOMAIN previous
          /\ previous[c] = One
          /\ control[c].animation_transition = One

\* C2: a run of update_system sends no colour and no layout instruction to the
\* nodes of a button whose transition it leaves unchanged; and it leaves the
\* transition unchanged at 0.0 with direction -1.0, at 1.0 with direction 1.0
\* and with direction 0.0, whatever the elapsed time.
C2_NoRedundantInstruction ==
    Stepped =>
        \A c \in DOMAIN previous :
            LET ctl == control[c]
                atRest == \/ ctl.animation_direction = 0
                          \/ ctl.animation_direction = -1 /\ previous[c] = 0
                          \/ ctl.animation_direction = 1 /\ previous[c] = One
            IN  /\ atRest => ctl.animation_transition = previous[c]
                /\ ctl.animation_transition = previous[c]
                      => Silent(set_color, set_layout, ctl)

\* C2 witness: in one frame with a positive elapsed time a fresh button
\* (direction 0.0) stayed silent while another button moved and sent events.
C2_Witness ==
    /\ Stepped
    /\ dt > 0
    /\ \E c, m \in DOMAIN control :
          /\ control[c].animation_direction = 0
          /\ c \in DOMAIN previous
          /\ previous[c] = 0
          /\ Silent(set_color, set_layout, control[c])
          /\ ~Silent(set_color, set_layout, control[m])

C3_ThreeInstructions ==
    Stepped =>
        /\ \A c \in DOMAIN previous :
              LET ctl == control[c]
                  t == ctl.animation_transition
              IN  t # previous[c] =>
                    /\ \E e \in BagToSet(set_color) :
                          /\ SentTo(set_color, ctl.image_entity) = {e}
                          /\ CopiesIn(e, set_color) = 1
                          /\ e.color.a = t
                          /\ \E f \in BagToSet(set_color) :
                                /\ SentTo(set_color, ctl.text_entity) = {f}
                                /\ CopiesIn(f, set_color) = 1
                                /\ f.color.a = One
                                /\ f.color.mix = t
                                /\ e.color.mix = f.color.mix
                    /\ \E l \in BagToSet(set_layout) :
                          /\ SentTo(set_layout, ctl.image_entity) = {l}
                          /\ CopiesIn(l, set_layout) = 1
                          /\ l.x = 10 * t
                    /\ SentTo(set_layout, ctl.text_entity) = {}
        /\ \A e \in BagToSet(set_color) \cup BagToSet(set_layout) :
              \E c \in DOMAIN previous :
                  /\ e.target \in {control[c].image_entity, control[c].text_entity}
                  /\ control[c].animation_transition # previous[c]

\* C3 witness (scenario B): a button moved to 0.5 in a frame of 0.05 s and its
\* image got alpha 0.5 and offset 5.0.
C3_Witness ==
    /\ Stepped
    /\ 20 * dt = One
    /\ \E c \in DOMAIN previous :
          /\ previous[c] = 0
          /\ 2 * control[c].animation_transition = One
          /\ \E e \in SentTo(set_color, control[c].image_entity) : 2 * e.color.a = One
          /\ \E f \in SentTo(set_color, control[c].text_entity) : f.color.a = One
          /\ \E l \in SentTo(set_layout, control[c].image_entity) : l.x = 5 * One

\* The kind of the latest event of this frame addressed to x.
LatestKind(x) ==
    LET idx == {i \in 1..Len(events) : events[i].target = x}
    IN  events[CHOOSE i \in idx : \A j \in idx : j <= i].kind

\* Both an Over and an Out event of this frame are addressed to x.
BothPending(x) == x \in Range(OverQ) /\ x \in Range(OutQ)

\* C5: after pointer_enter_system every control named by an Over event has
\* direction exactly 1.0, after pointer_leave_system every control named by an
\* Out event has direction exactly -1.0, however often it is named and
\* whatever it was before; and no run of update_system moves a transition by
\* more than elapsed time * 10.
C5_DirectionOverride ==
    pc = "update" =>
        /\ lastPointer = "enter" =>
              \A c \in DOMAIN control :
                  c \in Range(OverQ) => control[c].animation_direction = 1
        /\ lastPointer = "leave" =>
              \A c \in DOMAIN control :
                  c \in Range(OutQ) => control[c].animation_direction = -1
        /\ Stepped =>
              \A c \in DOMAIN previous :
                  /\ control[c].animation_transition - previous[c] <= dt * 10
                  /\ previous[c] - control[c].animation_transition <= dt * 10

\* C5 witness: two Over events named the same control in one frame, and the
\* run of update_system of that frame (0.05 s) moved it from 0.0 to 0.5, not 1.0.
C5_Witness ==
    /\ Stepped
    /\ 20 * dt = One
    /\ \E c \in DOMAIN previous :
          /\ Cardinality({i \in 1..Len(events) :
                             events[i] = [kind |-> "Over", target |-> c]}) >= 2
          /\ control[c].animation_direction = 1
          /\ previous[c] = 0
          /\ 2 * control[c].animation_transition = One

\* C6: when update_system runs, pointer_enter_system and pointer_leave_system
\* have applied every event of the frame: each has run if its queue holds an
\* event, and a control named only by Over (only by Out) events of this frame
\* is stepped forward (backward) in this very frame.
C6_EventsBeforeStepper ==
    Stepped =>
        /\ OverQ # << >> => "enter" \in ran
        /\ OutQ # << >> => "leave" \in ran
        /\ \A c \in DOMAIN previous :
              LET up == previous[c] + dt * 10
                  down == previous[c] - dt * 10
              IN  /\ (c \in Range(OverQ) /\ c \notin Range(OutQ)) =>
                        control[c].animation_transition = IF up > One THEN One ELSE up
                  /\ (c \in Range(OutQ) /\ c \notin Range(OverQ)) =>
                        control[c].animation_transition = IF down < 0 THEN 0 ELSE down

\* C6 witness: in one frame an Over event reached a resting control and an Out
\* event a fully shown one, and update_system moved both in that frame.
C6_Witness ==
    /\ Stepped
    /\ dt > 0
    /\ {"enter", "leave"} \subseteq ran
    /\ \E c, m \in DOMAIN previous :
          /\ c \in Range(OverQ) /\ c \notin Range(OutQ)
          /\ previous[c] = 0
          /\ control[c].animation_transition > 0
          /\ m \in Range(OutQ) /\ m \notin Range(OverQ)
          /\ previous[m] = One
          /\ control[m].animation_transition < One

\* C7 as claimed: when Over and Out events for one control are pending in a
\* frame, update_system sees the direction of the latest of them.
C7_LatestEventWins ==
    Stepped =>
        \A c \in DOMAIN control :
            BothPending(c) =>
                control[c].animation_direction = IF LatestKind(c) = "Over" THEN 1 ELSE -1

\* C7 as amended: when Over and Out events for one control are pending in a
\* frame, update_system sees the direction set by the pointer system that ran
\* later in that frame: 1.0 if pointer_enter_system ran after
\* pointer_leave_system, -1.0 if it ran before, in whatever order the events
\* were sent.
C7_LatestSystemWins ==
    Stepped =>
        \A c \in DOMAIN control :
            BothPending(c) =>
                control[c].animation_direction = IF lastPointer = "enter" THEN 1 ELSE -1

\* C7 witness: the Over event came after the Out event, pointer_leave_system
\* ran after pointer_enter_system, and update_system stepped the control
\* backward.
C7_Witness ==
    /\ Stepped
    /\ dt > 0
    /\ lastPointer = "leave"
    /\ \E c \in DOMAIN previous :
          /\ BothPending(c)
          /\ LatestKind(c) = "Over"
          /\ control[c].animation_direction = -1
          /\ control[c].animation_transition < previous[c]

\* The nodes of entity b that carry path p.
NodesAt(b, p) == {n \in DOMAIN nodes : n[1] = b /\ nodes[n].path = p}

\* The commands build_system has queued for entity b.
Queued(b) == {cmd \in commands : cmd.entity = b}

\* C8: an entity never has more than one composition, built or queued; once
\* build_system has visited an entity that carries a MainButton and its
\* commands are applied, the entity has exactly one Control, one Control/Image
\* and one Control/Image/Text node and one MainButtonControl, however many
\* times build_system runs and the MainButton is inserted.
C8_OneComposition ==
    \A b \in Buttons :
        /\ Cardinality(ControlsOf(b)) + Cardinality(Queued(b)) <= 1
        /\ (hasButton[b] /\ ~added[b] /\ Queued(b) = {}) =>
              /\ Cardinality(NodesAt(b, "Control")) = 1
              /\ Cardinality(NodesAt(b, "Control/Image")) = 1
              /\ Cardinality(NodesAt(b, "Control/Image/Text")) = 1
              /\ Cardinality(ControlsOf(b)) = 1
              /\ ControlsOf(b) = NodesAt(b, "Control")

\* C8 witness: build_system has run again in a frame in which both entities
\* already had their composition.
C8_Witness ==
    /\ pc = "update"
    /\ "build" \in ran
    /\ commands = {}
    /\ \A b \in Buttons : hasButton[b] /\ Cardinality(NodesAt(b, "Control")) = 1

\* C9: a pointer system changes nothing but the direction of the controls its
\* events name: an event whose target has no MainButtonControl changes no
\* direction and no transition, raises no panic, and the events after it are
\* applied all the same.
C9_NonButtonTargetDropped ==
    [][(EnterStep \/ LeaveStep) =>
        LET q == IF EnterStep THEN OverQ ELSE OutQ
            d == IF EnterStep THEN 1 ELSE -1
        IN  /\ ~panicked'
            /\ DOMAIN control' = DOMAIN control
            /\ \A c \in DOMAIN control :
                  /\ control'[c].animation_transition = control[c].animation_transition
                  /\ c \in Range(q) => control'[c].animation_direction = d
                  /\ c \notin Range(q) =>
                        control'[c].animation_direction = control[c].animation_direction
      ]_vars

\* C9 witness: the first Over event of a frame hit a node that is no button,
\* the second a Control node, and pointer_enter_system set that control forward
\* and left the other control alone.
C9_Witness ==
    /\ pc = "update"
    /\ "enter" \in ran
    /\ Len(events) = 2
    /\ events[1] = [kind |-> "Over", target |-> OtherNode]
    /\ events[2].kind = "Over"
    /\ events[2].target \in DOMAIN control
    /\ control[events[2].target].animation_direction = 1
    /\ \E m \in DOMAIN control : control[m].animation_direction = -1

\* C10: in every frame update_system requests the cursor for a control if and
\* only if its animation_direction is exactly 1.0, whether or not its
\* transition moved; outside update_system nothing requests it.
C10_CursorIffForward ==
    /\ Stepped =>
          \A c \in DOMAIN control :
              c \in cursorReq <=> control[c].animation_direction = 1
    /\ ~Stepped => cursorReq = {}

\* C10 witness: in one frame a control saturated at 1.0 with direction 1.0 sent
\* no instruction and requested the cursor, and a control moving backward,
\* still visible, did not request it.
C10_Witness ==
    /\ Stepped
    /\ dt > 0
    /\ \E c, m \in DOMAIN previous :
          /\ control[c].animation_direction = 1
          /\ previous[c] = One
          /\ Silent(set_color, set_layout, control[c])
          /\ c \in cursorReq
          /\ control[m].animation_direction = -1
          /\ control[m].animation_transition > 0
          /\ m \notin cursorReq

\* The nodes spawned under entity b.
NodesOf(b) == {n \in DOMAIN nodes : n[1] = b}

\* C11 as claimed: when the assets build_system needs are unavailable (the
\* resource is absent, or its handles point to assets that failed to load),
\* a button it processes gets no composition, neither queued nor spawned, and
\* a run of build_system that has a button to process does not take the frame
\* down: no panic, so that the other buttons and the other systems of the
\* frame still run.  (After a run that returned, Added matches no entity; a
\* run that still has an entity to process was cut short.)
C11_MissingAssetFailsOneButton ==
    assets # "loaded" =>
        /\ \A b \in Buttons : Queued(b) = {} /\ ControlsOf(b) = {} /\ NodesOf(b) = {}
        /\ ("build" \in ran /\ BuildQuery # {}) => ~panicked

\* The nodes that pointer events of this frame name.
EventTargets == {events[i].target : i \in 1..Len(events)}

\* C12 as claimed: in every composition the Control node is marked
\* hit-testable and both the Control/Image and the Control/Image/Text node are
\* marked non-hit-testable, and every pointer event that names a node of a
\* composition names a Control node.
C12_ImageAndTextMarked ==
    /\ \A n \in DOMAIN nodes :
          /\ nodes[n].path = "Control" => nodes[n].pickable = "default"
          /\ nodes[n].path \in {"Control/Image", "Control/Image/Text"} =>
                nodes[n].pickable = "IGNORE"
    /\ \A n \in EventTargets \cap DOMAIN nodes : nodes[n].path = "Control"

\* C12 as amended: in every composition the Control node is the only node
\* given the pickable bundle, the Control/Image node is marked
\* Pickable::IGNORE, and the Control/Image/Text node carries no Pickable
\* marking and no sprite; the nodes a sprite can be hit on are exactly the
\* Control nodes, and every pointer event that names a node of a composition
\* names a Control node.
C12_OnlyControlHittable ==
    /\ \A n \in DOMAIN nodes :
          /\ nodes[n].path = "Control" => nodes[n].pickable = "default"
          /\ nodes[n].path = "Control/Image" => nodes[n].pickable = "IGNORE"
          /\ nodes[n].path = "Control/Image/Text" =>
                nodes[n].pickable = "absent" /\ ~nodes[n].sprite
          /\ nodes[n].pickable = "default" => nodes[n].path = "Control"
    /\ Hittable = {n \in DOMAIN nodes : nodes[n].path = "Control"}
    /\ Hittable = DOMAIN control
    /\ \A n \in EventTargets \cap DOMAIN nodes : nodes[n].path = "Control"

\* C12 witness: both entities have their composition, and the pointer events
\* of a frame named the Control nodes of both.
C12_Witness ==
    /\ pc = "update"
    /\ \A b \in Buttons :
          /\ Cardinality(NodesOf(b)) = 3
          /\ \E n \in EventTargets : n \in NodesOf(b) /\ nodes[n].path = "Control"

\* C13: a run of update_system leaves the transition of every control at
\* previous + elapsed time * 10 * direction, cut off at 0.0 below and at 1.0
\* above (never wrapped around).  From 0.0 with direction 1.0, 0.05 s give 0.5
\* and from 0.5 another 0.05 s give 1.0; from 1.0 with direction -1.0, 0.1 s
\* give 0.0, and that run sends the Image node a colour with alpha 0.0.
C13_StepFormula ==
    Stepped =>
        \A c \in DOMAIN previous :
            LET ctl == control[c]
                raw == previous[c] + dt * 10 * ctl.animation_direction
                t == ctl.animation_transition
            IN  /\ raw < 0 => t = 0
                /\ raw > One => t = One
                /\ (raw >= 0 /\ raw <= One) => t = raw
                /\ (20 * dt = One /\ ctl.animation_direction = 1 /\ previous[c] = 0)
                      => 2 * t = One
                /\ (20 * dt = One /\ ctl.animation_direction = 1 /\ 2 * previous[c] = One)
                      => t = One
                /\ (10 * dt = One /\ ctl.animation_direction = -1 /\ previous[c] = One)
                      => /\ t = 0
                         /\ \E e \in SentTo(set_color, ctl.image_entity) : e.color.a = 0

\* C13 witness (scenario D): a control at 1.0 with direction -1.0 was stepped
\* with 0.1 s, is at 0.0, and its Image node was sent alpha 0.0; in the same
\* run another control overshot 1.0 and was cut off at 1.0.
C13_Witness ==
    /\ Stepped
    /\ 10 * dt = One
    /\ \E c, m \in DOMAIN previous :
          /\ control[c].animation_direction = -1
          /\ previous[c] = One
          /\ control[c].animation_transition = 0
          /\ \E e \in SentTo(set_color, control[c].image_entity) : e.color.a = 0
          /\ control[m].animation_direction = 1
          /\ 2 * previous[m] = One
          /\ control[m].animation_transition = One

\* The step in which update_system runs.
UpdateStep == "update" \notin ran /\ "update" \in ran'

\* C14: once a MainButtonControl exists, pointer_enter_system and
\* pointer_leave_system change nothing of it but animation_direction,
\* update_system changes nothing of it but animation_transition, no other step
\* changes either, and image_entity and text_entity stay for ever what
\* build_system made them: the Image and the Text node spawned with the control.
C14_FieldOwnership ==
    [][/\ \A c \in DOMAIN control :
             /\ c \in DOMAIN control'
             /\ control'[c].image_entity = control[c].image_entity
             /\ control'[c].text_entity = control[c].text_entity
             /\ (EnterStep \/ LeaveStep) =>
                   control'[c].animation_transition = control[c].animation_transition
             /\ UpdateStep =>
                   control'[c].animation_direction = control[c].animation_direction
             /\ control'[c].animation_direction # control[c].animation_direction =>
                   (EnterStep \/ LeaveStep)
             /\ control'[c].animation_transition # control[c].animation_transition =>
                   UpdateStep
       /\ \A c \in DOMAIN control' \ DOMAIN control :
             /\ control'[c].image_entity \in DOMAIN nodes' \ DOMAIN nodes
             /\ control'[c].text_entity \in DOMAIN nodes' \ DOMAIN nodes
             /\ nodes'[control'[c].image_entity].path = "Control/Image"
             /\ nodes'[control'[c].text_entity].path = "Control/Image/Text"
             /\ control'[c].image_entity[1] = c[1]
             /\ control'[c].text_entity[1] = c[1]
      ]_vars

\* C14 witness: in one frame pointer_leave_system turned a control that stood
\* at 1.0 and update_system moved it, and it still refers to the Image and Text
\* node of its own composition.
C14_Witness ==
    /\ Stepped
    /\ "leave" \in ran
    /\ \E c \in DOMAIN previous :
          /\ c \in Range(OutQ)
          /\ control[c].animation_direction = -1
          /\ previous[c] = One
          /\ control[c].animation_transition < One
          /\ control[c].image_entity = ImageId(c[1], c[2])
          /\ control[c].text_entity = TextId(c[1], c[2])

\* The control record of c after a run of update_system on it alone.
SteppedAlone(ctl, d) ==
    LET raw == ctl.animation_transition + d * 10 * ctl.animation_direction
    IN  [ctl EXCEPT !.animation_transition =
                        IF raw < 0 THEN 0 ELSE IF raw > One THEN One ELSE raw]

\* C15: buttons are independent.  A pointer system leaves every control its
\* events do not name exactly as it was; update_system gives every control
\* what a run on that control alone would give, whatever the other controls
\* are and in whatever order they are visited; and every instruction of the
\* frame is addressed to the Image or Text node of exactly one control, whose
\* transition moved and whose new transition it carries.
C15_ButtonsIndependent ==
    [][/\ EnterStep =>
             \A b \in DOMAIN control : b \notin Range(OverQ) => control'[b] = control[b]
       /\ LeaveStep =>
             \A b \in DOMAIN control : b \notin Range(OutQ) => control'[b] = control[b]
       /\ UpdateStep =>
             /\ \A b \in DOMAIN control : control'[b] = SteppedAlone(control[b], dt')
             /\ \A e \in BagToSet(set_color') \cup BagToSet(set_layout') :
                   \E a \in DOMAIN control :
                       /\ e.target \in {control[a].image_entity, control[a].text_entity}
                       /\ control'[a].animation_transition # control[a].animation_transition
                       /\ \A b \in DOMAIN control \ {a} :
                             e.target \notin {control[b].image_entity, control[b].text_entity}
                       /\ e \in BagToSet(set_color') =>
                             e.color.mix = control'[a].animation_transition
                       /\ e \in BagToSet(set_layout') =>
                             e.x = 10 * control'[a].animation_transition
      ]_vars

\* C15 witness: in one frame an Over event named one control only, and
\* update_system moved that control forward and the other one backward; each
\* Image node was sent its own control's alpha, and the two differ.
C15_Witness ==
    /\ Stepped
    /\ \E a, b \in DOMAIN previous :
          /\ a \in Range(OverQ)
          /\ b \notin EventTargets
          /\ control[a].animation_transition > previous[a]
          /\ control[b].animation_transition < previous[b]
          /\ control[a].animation_transition # control[b].animation_transition
          /\ \A e \in SentTo(set_color, control[a].image_entity) :
                e.color.a = control[a].animation_transition
          /\ \A e \in SentTo(set_color, control[b].image_entity) :
                e.color.a = control[b].animation_transition
          /\ SentTo(set_color, control[a].image_entity) # {}
          /\ SentTo(set_color, control[b].image_entity) # {}

\* C18: animation_direction is always -1.0, 0.0 or 1.0.  A control is created
\* with 0.0 and keeps 0.0 until a pointer system applies the first Over or Out
\* event that names it, which makes it 1.0 or -1.0; nothing else moves it away
\* from 0.0, and once it is not 0.0 no step makes it 0.0 again.
C18_NeverBackToIdle ==
    [][\A c \in DOMAIN control' :
          /\ control'[c].animation_direction \in {-1, 0, 1}
          /\ c \notin DOMAIN control => control'[c].animation_direction = 0
          /\ c \in DOMAIN control =>
                /\ control[c].animation_direction # 0 => control'[c].animation_direction # 0
                /\ (EnterStep /\ c \in Range(OverQ)) => control'[c].animation_direction = 1
                /\ (LeaveStep /\ c \in Range(OutQ)) => control'[c].animation_direction = -1
                /\ (control[c].animation_direction = 0 /\ control'[c].animation_direction # 0) =>
                      \/ EnterStep /\ c \in Range(OverQ)
                      \/ LeaveStep /\ c \in Range(OutQ)
      ]_vars

\* C18 witness: between two frames one control is back at 0.0 with direction
\* -1.0, not idle, while another control that no event has named is still
\* idle, though update_system has run on both.
C18_Witness ==
    /\ pc = "idle"
    /\ dt = 0
    /\ \E c, m \in DOMAIN control :
          /\ control[c].animation_direction = -1
          /\ control[c].animation_transition = 0
          /\ control[m].animation_direction = 0
          /\ control[m].animation_transition = 0

\* C16 as claimed: a run of update_system visits every existing control,
\* whatever the number of Cursor2d entities (none, one, two) and however many
\* controls request the cursor: each control is stepped from its previous
\* transition, cut off at the bounds, and has its instructions sent if it moved.
C16_EveryControlStepped ==
    Stepped =>
        \A c \in DOMAIN control :
            /\ c \in DOMAIN previous
            /\ control[c] =
                  SteppedAlone([control[c] EXCEPT !.animation_transition = previous[c]], dt)
            /\ control[c].animation_transition # previous[c] =>
                  /\ SentTo(set_color, control[c].image_entity) # {}
                  /\ SentTo(set_color, control[c].text_entity) # {}
                  /\ SentTo(set_layout, control[c].image_entity) # {}

\* C17: between and within frames, for every control with transition t, the
\* values last sent to its Image node agree with t: the latest colour
\* instruction carried alpha t and the latest layout instruction offset
\* 10 * t, where for a node that was never sent an instruction the values it
\* was spawned with (alpha 0.0, offset 0) count, and t is 0.0 then.
C17_LastSentAgrees ==
    \A c \in DOMAIN control :
        LET img == control[c].image_entity
            t == control[c].animation_transition
        IN  /\ img \in DOMAIN lastSent
            /\ lastSent[img].alpha = t
            /\ lastSent[img].x = 10 * t

\* C17 witness: between two frames a control on its way back stands at 0.5,
\* its Image node last sent alpha 0.5 and offset 5.0; another control
\* has come back to 0.0 and was sent alpha 0.0 again.
C17_Witness ==
    /\ pc = "idle"
    /\ \E c, m \in DOMAIN control :
          /\ control[c].animation_direction = -1
          /\ 2 * control[c].animation_transition = One
          /\ 2 * lastSent[control[c].image_entity].alpha = One
          /\ lastSent[control[c].image_entity].x = 5 * One
          /\ control[m].animation_direction = -1
          /\ control[m].animation_transition = 0
          /\ lastSent[control[m].image_entity] = [alpha |-> 0, x |-> 0]

====
